---- MODULE Spec2Model ----
(***************************************************************************)
(* The analysis-code execution engine of log-analysis-ai.                  *)
(*                                                                         *)
(* Two entry points run a generated code string and turn what it did into  *)
(* one result object:                                                      *)
(*   DataAnalysisAgent.execute_code   (python/data_analysis_agent.py)      *)
(*   visualize_data                   (python/logai_agent.py)              *)
(*                                                                         *)
(* The code string is opaque to the engine.  It is modelled by what it     *)
(* does to the state the engine observes: it prints, it creates pyplot     *)
(* figures, it binds names in its namespace, and it ends by running off    *)
(* its end or by raising.  Each of these is one step of a running call.    *)
(*                                                                         *)
(* Process-wide state (shared by every call): sys.stdout, the pyplot       *)
(* figure registry, the agent's self.globals table.  Per-call state is      *)
(* indexed by the calling thread.                                          *)
(*                                                                         *)
(* Specifications: Spec (one caller, call after call), ConcSpec (two       *)
(* threads), RepeatSpec (a request made twice in a row, with the store     *)
(* helper), AdapterSpec (visualize_data's payload adapter on every payload *)
(* of a bounded universe), AnalysisSpec (analyze_logs around execute_code),*)
(* AgentSpec (LogAIAgent.initialize and process_query) and CacheSpec (the  *)
(* embedding cache of GeminiVectorizer).                                   *)
(***************************************************************************)
EXTENDS Integers, Sequences, FiniteSets, TLC

(***************************************************************************)
(* Bounds of the model.                                                    *)
(***************************************************************************)
MaxRuns == 2      \* calls started in one behaviour
MaxOps == 2       \* statements one code string executes

Threads == {1, 2}
RunIds == 1..MaxRuns

(***************************************************************************)
(* Python values.  Text is a sequence of tokens; the empty string is <<>>. *)
(* A field that holds None or a string is a tagged record.                 *)
(***************************************************************************)
None == "None"
PyNone == [none |-> TRUE]
PyStr(s) == [str |-> s]
NL == "\n"

\* What the code raises: a class and the message str(e) gives.
\* raise ValueError("boom"); raise ValueError() or assert False; a code
\* string that does not compile; sys.exit().
Raisable ==
    {<<"ValueError", <<"boom">>>>, <<"ValueError", <<>>>>,
     <<"SyntaxError", <<"invalid syntax">>>>, <<"SystemExit", <<>>>>}

\* `except Exception`: SystemExit derives from BaseException only.
\* duckdb.Error derives from Exception.
IsException(kind) == kind \in {"SyntaxError", "ValueError", "duckdb.Error"}

\* traceback.format_exc(): header, then the exception's class and message.
FormatExc(kind, msg) == <<"Traceback", kind>> \o msg

\* f"{str(e)}\n{traceback.format_exc()}"
ExecErrorText(kind, msg) == msg \o <<NL>> \o FormatExc(kind, msg)

\* result["error"] = str(e)
VizErrorText(kind, msg) == PyStr(msg)

(***************************************************************************)
(* Namespaces.  A namespace maps every modelled name to its value, or to   *)
(* Unbound when the name is absent.                                        *)
(***************************************************************************)
Unbound == "unbound"
Lib == "lib"            \* a library handle (pd, plt, ...)
EmptyDict == "empty"    \* {}
Helper == "fn"         \* a helper function of local_context
Names == {"pd", "get_logs", "result", "results", "x"}
NameOrder == <<"pd", "get_logs", "result", "results", "x">>

\* self.globals as __init__ leaves it.
InitGlobals == [n \in Names |-> IF n = "pd" THEN Lib ELSE Unbound]

\* local_context of execute_code: the entries that overlay self.globals.
LocalContext == [n \in {"get_logs", "result"} |-> IF n = "result" THEN None ELSE Helper]

\* exec_globals = dict(self.globals); exec_globals.update(local_context)
BuildExecGlobals(base) ==
    [n \in Names |-> IF n \in DOMAIN LocalContext THEN LocalContext[n] ELSE base[n]]

\* Mutant of SelfGlobalsAfter: exec_globals = self.globals, without the copy.
SelfGlobalsAliased(base, env) == env

\* self.globals after the code has changed exec_globals to env: exec_globals
\* is a copy, so the agent's table is not touched.
SelfGlobalsAfter(base, env) == base

\* local_vars of visualize_data.
BuildLocalVars ==
    [n \in Names |-> CASE n = "pd" -> Lib
                       [] n = "results" -> EmptyDict
                       [] OTHER -> Unbound]

(***************************************************************************)
(* Result objects, with the keys the code gives them.                      *)
(***************************************************************************)
ExecResultInit ==
    [success |-> FALSE, output |-> <<>>, error |-> <<>>, figures |-> <<>>,
     dataframes |-> <<>>, result |-> None]

VizResultInit ==
    [success |-> FALSE, image |-> PyNone, saved_path |-> None,
     error |-> PyNone, data |-> None]

NoResult == [none |-> TRUE]

(***************************************************************************)
(* Figures.  A figure is identified by the run that created it and its     *)
(* index in that run; ok says whether savefig can render it.               *)
(***************************************************************************)
Fig(r, k, ok) == [run |-> r, k |-> k, ok |-> ok]

\* The base64 image of a figure: determined by the figure.
ToBase64(f) == [run |-> f.run, k |-> f.k]

RECURSIVE OkPrefix(_)
\* The figures serialized before the first one whose savefig raises.
OkPrefix(figs) ==
    IF figs = <<>> \/ ~Head(figs).ok THEN <<>>
    ELSE <<Head(figs)>> \o OkPrefix(Tail(figs))

Images(figs) == [i \in 1..Len(figs) |-> ToBase64(figs[i])]

\* The figures a run leaves open outlive it.  To later runs they are only
\* "not mine": once run r has returned, its figures are relabelled as
\* figures of run 0.
Disown(figs, r) ==
    [i \in 1..Len(figs) |-> IF figs[i].run = r THEN Fig(0, 0, figs[i].ok) ELSE figs[i]]

(***************************************************************************)
(* Payloads of visualize_data.  A payload is a mapping, a sequence or a    *)
(* scalar.  A mapping is a record over the keys the adapter looks at; a    *)
(* key holds <<>> when it is absent and <<v>> when it is present with      *)
(* value v.  A mapping of the payload (breakdown, level_counts) is the     *)
(* sequence of its items in insertion order.                               *)
(***************************************************************************)
MaxLen == 2            \* records in one sequence of a payload

Seqs(S, n) == UNION {[1..k -> S] : k \in 0..n}
Range(f) == {f[i] : i \in DOMAIN f}

Absent == <<>>
Present(v) == <<v>>
Has(d, k) == d[k] # Absent          \* "k" in d
Get(d, k) == d[k][1]                \* d["k"]

Keys == {"logs", "clusters", "trends", "breakdown", "rows", "columns", "statistics"}
NoKeys == [k \in Keys |-> Absent]   \* {}

Levels == {"ERROR", "INFO"}
LogRecords == {[level |-> l] : l \in Levels}
TrendPoints == {[bucket |-> b, count |-> 1] : b \in {"h1", "h2"}}
Items == {<<l, c>> : l \in Levels, c \in {1, 3}}
Mappings ==
    {m \in Seqs(Items, MaxLen) :
        \A i, j \in 1..Len(m) : m[i][1] = m[j][1] => i = j}
Clusters ==
    {[id |-> i, size |-> s, logs |-> ls] :
        i \in 0..1, s \in {Absent, Present(2)},
        ls \in Seqs({[level |-> "ERROR"]}, MaxLen)}
ColumnLists == {<<"a">>, <<"a", "b">>}
Cells == {"u", "v"}
TimeStats == {<<>>, [start |-> "t0", end |-> "t1"]}
Statistics ==
    {[level_counts |-> lc, time_stats |-> ts] :
        lc \in {Absent} \cup {Present(m) : m \in Mappings},
        ts \in {Absent} \cup {Present(r) : r \in TimeStats}}

\* The mappings that carry one recognized shape.
OneKey(k, vals) == {[NoKeys EXCEPT ![k] = Present(v)] : v \in vals}
QueryShapes ==
    UNION {{[NoKeys EXCEPT !["rows"] = Present(rs), !["columns"] = Present(cs)] :
              rs \in Seqs([1..Len(cs) -> Cells], MaxLen)} : cs \in ColumnLists}
Shapes ==
    OneKey("logs", Seqs(LogRecords, MaxLen))
    \cup OneKey("clusters", Seqs(Clusters, MaxLen))
    \cup OneKey("trends", Seqs(TrendPoints, MaxLen))
    \cup OneKey("breakdown", Mappings)
    \cup QueryShapes
    \cup OneKey("rows", {<<>>})
    \cup OneKey("statistics", Statistics)

\* A few of them, to combine in one payload.
SmallShapes ==
    {d \in Shapes :
        /\ Has(d, "logs") => Len(Get(d, "logs")) = 0 \/ Get(d, "logs") = <<[level |-> "INFO"]>>
        /\ Has(d, "clusters") =>
              Get(d, "clusters") \in {<<>>, <<[id |-> 1, size |-> Present(2), logs |-> <<[level |-> "ERROR"]>>]>>}
        /\ Has(d, "trends") => Len(Get(d, "trends")) = 0 \/ Get(d, "trends") = <<[bucket |-> "h1", count |-> 1]>>
        /\ Has(d, "breakdown") => Get(d, "breakdown") \in {<<>>, <<<<"ERROR", 3>>>>}
        /\ Has(d, "rows") => Get(d, "rows") \in {<<>>, <<<<"u">>>>}
        /\ Has(d, "columns") => Get(d, "columns") = <<"a">>
        /\ Has(d, "statistics") =>
              Get(d, "statistics") = [level_counts |-> Present(<<<<"ERROR", 3>>>>),
                                      time_stats |-> Present([start |-> "t0", end |-> "t1"])]}

\* {**d, **e}
Merge(d, e) == [k \in Keys |-> IF Has(e, k) THEN e[k] ELSE d[k]]

DictPayloads ==
    {[kind |-> "dict", keys |-> d] :
        d \in {NoKeys} \cup Shapes \cup {Merge(d1, d2) : d1, d2 \in SmallShapes}}
ListPayloads == {[kind |-> "list", items |-> rs] : rs \in Seqs(LogRecords, MaxLen)}
ScalarPayloads == {[kind |-> "scalar", value |-> 5]}
AllPayloads == DictPayloads \cup ListPayloads \cup ScalarPayloads

\* The payloads the runs of the engine are given: {}, a list of records, 5.
Payloads ==
    {[kind |-> "dict", keys |-> NoKeys],
     [kind |-> "list", items |-> <<[level |-> "ERROR"]>>],
     [kind |-> "scalar", value |-> 5]}
Paths == {None, "out.png", "nodir/out.png"}
DefaultPath == "viz_timestamp.png"

(***************************************************************************)
(* The tables the adapter builds.  A table has its column names, in order, *)
(* and its rows; a row maps column names to values.                        *)
(***************************************************************************)
Frame(cols, rows) == [columns |-> cols, rows |-> rows]

\* The fields of the payloads' records, in the order the records list them.
FieldOrder == <<"level", "bucket", "count", "start", "end", "cluster_id">>
IsField(recs, k) == \E i \in 1..Len(recs) : k \in DOMAIN recs[i]
ColumnsOf(recs) == SelectSeq(FieldOrder, LAMBDA k : IsField(recs, k))

\* pd.DataFrame(<list of records>): one row per record, the columns are the
\* records' keys; no record, no column.
FromRecords(recs) == Frame(ColumnsOf(recs), recs)

\* pd.DataFrame(list(m.items()), columns=[c1, c2])
FromItems(items, cols) ==
    Frame(cols, [i \in 1..Len(items) |->
                   (cols[1] :> items[i][1]) @@ (cols[2] :> items[i][2])])

\* pd.DataFrame(rows, columns=columns)
FromRows(rows, cols) ==
    Frame(cols, [i \in 1..Len(rows) |->
                   [c \in Range(cols) |->
                      rows[i][CHOOSE j \in 1..Len(cols) : cols[j] = c]]])

\* pd.concat([a, b])
Concat(a, b) == Frame(IF a.columns = <<>> THEN b.columns ELSE a.columns,
                      a.rows \o b.rows)

\* log["cluster_id"] = cluster_id, for every log of a cluster: the record
\* of the payload itself is changed.
AnnotateLogs(logs, id) ==
    [i \in 1..Len(logs) |->
       [k \in DOMAIN logs[i] \cup {"cluster_id"} |->
          IF k = "cluster_id" THEN id ELSE logs[i][k]]]

\* The loop over data["clusters"]: the summary table is created at the
\* first cluster and grows by one row per cluster; the logs are collected.
RECURSIVE ClusterLoop(_, _, _)
ClusterLoop(clusters, dfs, list) ==
    IF clusters = <<>> THEN [dfs |-> dfs, list |-> list]
    ELSE LET cluster == Head(clusters)
             cluster_id == cluster.id
             cluster_size == IF cluster.size = Absent THEN 0 ELSE cluster.size[1]
             created == IF "cluster_summary_df" \notin DOMAIN dfs
                        THEN dfs @@ ("cluster_summary_df" :>
                                       Frame(<<"cluster_id", "size">>, <<>>))
                        ELSE dfs
             cluster_row == Frame(<<"cluster_id", "size">>,
                                  <<[cluster_id |-> cluster_id, size |-> cluster_size]>>)
         IN ClusterLoop(Tail(clusters),
                        [created EXCEPT !["cluster_summary_df"] = Concat(@, cluster_row)],
                        list \o AnnotateLogs(cluster.logs, cluster_id))

\* The clusters branch: clusters_df is built only when a log was collected.
ClusterFrames(clusters) ==
    LET r == ClusterLoop(clusters, <<>>, <<>>)
    IN IF r.list # <<>> THEN r.dfs @@ ("clusters_df" :> FromRecords(r.list))
       ELSE r.dfs

\* Mutant of TimeFrame: the mapping is passed without the enclosing list.
TimeFrameUnwrapped(ts) == Frame(ColumnsOf(<<ts>>), <<>>)

\* pd.DataFrame([stats["time_stats"]])
TimeFrame(ts) == FromRecords(<<ts>>)

\* The two independent checks under "statistics".
StatFrames(stats) ==
    (IF stats.level_counts # Absent
     THEN "level_df" :> FromItems(stats.level_counts[1], <<"level", "count">>)
     ELSE <<>>)
    @@ (IF stats.time_stats # Absent
        THEN "time_df" :> TimeFrame(stats.time_stats[1])
        ELSE <<>>)

\* The if / elif chain over the keys of a mapping payload.
BranchFrames(d) ==
    IF Has(d, "logs") THEN "logs_df" :> FromRecords(Get(d, "logs"))
    ELSE IF Has(d, "clusters") THEN ClusterFrames(Get(d, "clusters"))
    ELSE IF Has(d, "trends") THEN "trends_df" :> FromRecords(Get(d, "trends"))
    ELSE IF Has(d, "breakdown")
         THEN "breakdown_df" :> FromItems(Get(d, "breakdown"), <<"category", "count">>)
    ELSE IF Has(d, "rows") /\ Has(d, "columns")
         THEN "query_df" :> FromRows(Get(d, "rows"), Get(d, "columns"))
    ELSE IF Has(d, "statistics") THEN StatFrames(Get(d, "statistics"))
    ELSE <<>>

\* The payload object once the adapter is done with it: the clusters branch
\* has written cluster_id into the logs.
DataAfter(p) ==
    IF p.kind = "dict" /\ ~Has(p.keys, "logs") /\ Has(p.keys, "clusters")
    THEN [p EXCEPT !.keys["clusters"] =
            Present([i \in 1..Len(@[1]) |->
                       [@[1][i] EXCEPT !.logs = AnnotateLogs(@, p.keys["clusters"][1][i].id)]])]
    ELSE p

\* dataframes after the isinstance(data, dict) block: the tables of the
\* branch taken and raw_data, which is the payload object itself.
Adapt(p) ==
    IF p.kind = "dict" THEN BranchFrames(p.keys) @@ ("raw_data" :> DataAfter(p))
    ELSE <<>>

\* The fallback pd.DataFrame(data) raises on a payload that is no table.
FallbackRaises(p) == p.kind = "scalar"

\* dataframes["df"] = pd.DataFrame(data)
Fallback(p) == "df" :> FromRecords(p.items)

\* if not save_path: save_path = <generated default>
EffectivePath(path) == IF path = None THEN DefaultPath ELSE path

\* Whether plt.savefig(path) can write the file.
Writable(path) == path # "nodir/out.png"

(***************************************************************************)
(* DataFrames.  A value that is a DataFrame is one of two tables: a short  *)
(* one and one longer than the row sample.  Row i of table v is Row(v, i). *)
(***************************************************************************)
SmallRows == 3
BigRows == 7
HeadRows == 5          \* var_value.head(5)

DataFrames == {"df", "big"}
NRows(v) == IF v = "big" THEN BigRows ELSE SmallRows
Columns(v) == IF v = "big" THEN <<"timestamp", "level", "message">>
              ELSE <<"timestamp", "level">>
Row(v, i) == [of |-> v, i |-> i]
Min(a, b) == IF a <= b THEN a ELSE b

\* Mutant of HeadOf: every row is returned.
HeadUncapped(v, k) == [i \in 1..NRows(v) |-> Row(v, i)]

\* var_value.head(k).to_dict(orient='records'): the first k rows, or all of
\* them when the table has fewer.
HeadOf(v, k) == [i \in 1..Min(k, NRows(v)) |-> Row(v, i)]

\* var_value.shape
Shape(v) == <<NRows(v), Len(Columns(v))>>

\* The names the summary loop skips.
SkippedNames == {"get_logs", "get_templates"}

\* One entry of result['dataframes'].
Summary(n, v) ==
    [name |-> n, shape |-> Shape(v), columns |-> Columns(v),
     head |-> HeadOf(v, HeadRows)]

\* tables summarised from the final namespace, in dict order.
RECURSIVE Summaries(_, _)
Summaries(env, order) ==
    IF order = <<>> THEN <<>>
    ELSE (IF env[Head(order)] \in DataFrames /\ Head(order) \notin SkippedNames
          THEN <<Summary(Head(order), env[Head(order)])>> ELSE <<>>)
         \o Summaries(env, Tail(order))

\* Mutant of GrabResult: falls back to the results mapping.
GrabResultOrResults(env) ==
    IF env["result"] # Unbound /\ env["result"] # None THEN env["result"]
    ELSE IF env["results"] \notin {Unbound, EmptyDict} THEN env["results"]
    ELSE None

\* if 'result' in exec_globals and exec_globals['result'] is not None
GrabResult(env) ==
    IF env["result"] # Unbound /\ env["result"] # None THEN env["result"] ELSE None

\* if "results" in local_vars: result["data"] = local_vars["results"]
GrabData(env) == IF env["results"] # Unbound THEN env["results"] ELSE None

VARIABLES
    pc,            \* per thread: Idle, Running, Succeeded, Failed, Escaped
    engine,        \* per thread: which entry point is running
    rid,           \* per thread: id of the current run (0: none)
    ns,            \* per thread: the namespace the code runs in
    nops,          \* per thread: statements executed so far
    res,           \* per thread: the result object being built / returned
    saved,         \* per thread: the stream redirect_stdout will restore
    save_path,     \* per thread: visualize_data's save_path after defaulting
    self_globals,  \* the agent's self.globals
    sys_stdout,    \* 0: the process's stream; r: the StringIO of run r
    bufs,          \* contents of each run's StringIO
    open_figs,     \* pyplot's registry of open figures, in creation order
    wrote,         \* per thread: the path this run's savefig wrote (None: no file)
    runs,          \* calls started
    own_out,       \* history: what this run's own code printed
    own_figs,      \* history: the figures this run's own code created
    raised,        \* history: the exception the code raised, if any
    completed,     \* history: the code ran off its end
    post_raised,   \* history: post-processing raised
    bound_before,  \* history: an earlier run bound a name
    overlap,       \* history: per run, the runs that were live with it
    corr,          \* history: per thread, the run's last plot_correlation call
    duckdb_conn,   \* the agent's self.duckdb_conn: open, or closed
    query,         \* history: per thread, the run's last execute_query call
    twice,         \* the caller runs one request and then the same one again
    code,          \* per thread: the code string, as the statements run so far
    data,          \* adapter: the caller's payload object
    passed,        \* adapter, history: the payload as the caller built it
    dataframes,    \* adapter: visualize_data's dataframes mapping
    vpc,           \* adapter: where the call is
    referred,      \* adapter, history: the name the code string looked up
    apc,           \* analyze_logs: where the call is
    has_helpers,   \* analyze_logs: the agent has the two describing methods
    code_response, \* analyze_logs: what the code generation agent returned
    execution_result,  \* analyze_logs: what execute_code returned
    analysis,      \* analyze_logs: the AnalysisResult returned
    is_initialized,    \* LogAIAgent.is_initialized
    log_file,      \* LogAIAgent.log_file
    chat_history,  \* LogAIAgent.chat_history
    last_init,     \* history: the last initialize call
    last_query,    \* history: the last process_query call
    embedding_cache,   \* GeminiVectorizer.embedding_cache, in insertion order
    cache_capacity,    \* GeminiVectorizer.cache_capacity
    last_get       \* history: the last get_embedding call

\* The variables of the runs, and those of each other specification.
evars == <<pc, engine, rid, ns, nops, res, saved, save_path, self_globals,
           sys_stdout, bufs, open_figs, wrote, runs, own_out, own_figs,
           raised, completed, post_raised, bound_before, overlap, corr,
           duckdb_conn, query, twice, code>>
avars == <<data, passed, dataframes, vpc, referred>>
lvars == <<apc, has_helpers, code_response, execution_result, analysis>>
gvars == <<is_initialized, log_file, chat_history, last_init, last_query>>
cvars == <<embedding_cache, cache_capacity, last_get>>

vars == <<evars, avars, lvars, gvars, cvars>>

NotEngine == <<avars, lvars, gvars, cvars>>
NotAdapter == <<evars, lvars, gvars, cvars>>
NotAnalysis == <<evars, avars, gvars, cvars>>
NotAgent == <<evars, avars, lvars, cvars>>
NotCache == <<evars, avars, lvars, gvars>>

NoExc == [none |-> TRUE]
NoCall == [none |-> TRUE]
Exc(kind, msg) == [kind |-> kind, msg |-> msg]

RunsIdle ==
    /\ pc = [t \in Threads |-> "Idle"]
    /\ engine = [t \in Threads |-> "none"]
    /\ rid = [t \in Threads |-> 0]
    /\ ns = [t \in Threads |-> [n \in Names |-> Unbound]]
    /\ nops = [t \in Threads |-> 0]
    /\ res = [t \in Threads |-> NoResult]
    /\ saved = [t \in Threads |-> 0]
    /\ save_path = [t \in Threads |-> None]
    /\ self_globals = InitGlobals
    /\ sys_stdout = 0
    /\ bufs = [r \in RunIds |-> <<>>]
    /\ open_figs = <<>>
    /\ wrote = [t \in Threads |-> None]
    /\ runs = 0
    /\ own_out = [t \in Threads |-> <<>>]
    /\ own_figs = [t \in Threads |-> <<>>]
    /\ raised = [t \in Threads |-> NoExc]
    /\ completed = [t \in Threads |-> FALSE]
    /\ post_raised = [t \in Threads |-> FALSE]
    /\ bound_before = FALSE
    /\ overlap = [r \in RunIds |-> {}]
    /\ corr = [t \in Threads |-> NoCall]
    /\ query = [t \in Threads |-> NoCall]
    /\ code = [t \in Threads |-> <<>>]

\* The store is there and each request is made once.
EngineInit == RunsIdle /\ duckdb_conn = "open" /\ twice = FALSE

NoPayload == [kind |-> "none"]

\* No call of the other entry points is under way.
AdapterIdle ==
    /\ data = NoPayload
    /\ passed = NoPayload
    /\ dataframes = <<>>
    /\ vpc = "Off"
    /\ referred = None

AnalysisIdle ==
    /\ apc = "Off"
    /\ has_helpers = FALSE
    /\ code_response = NoCall
    /\ execution_result = NoCall
    /\ analysis = NoCall

AgentIdle ==
    /\ is_initialized = FALSE
    /\ log_file = None
    /\ chat_history = <<>>
    /\ last_init = NoCall
    /\ last_query = NoCall

CacheIdle ==
    /\ embedding_cache = <<>>
    /\ cache_capacity = 0
    /\ last_get = NoCall

Init == EngineInit /\ AdapterIdle /\ AnalysisIdle /\ AgentIdle /\ CacheIdle

Live == {t \in Threads : pc[t] = "Running"}

\* The code string is what it makes the interpreter do: the statements it
\* runs, in order, each with what the statement itself determines.  When the
\* caller repeats a request, the second call is given the code string and
\* the arguments of the first, so its statements are the first call's.
Logged(t, stmt) ==
    /\ (twice /\ t = 2) =>
          /\ Len(code[2]) < Len(code[1])
          /\ code[1][Len(code[2]) + 1] = stmt
    /\ code' = IF twice THEN [code EXCEPT ![t] = Append(@, stmt)] ELSE code

\* Bookkeeping common to the start of a call.  Threads are interchangeable:
\* the first call is taken to be thread 1's.
StartRun(t, e) ==
    /\ pc[t] = "Idle"
    /\ runs < MaxRuns
    /\ runs = 0 => t = 1
    /\ twice => t = runs + 1 /\ Live = {}
    /\ runs' = runs + 1
    /\ rid' = [rid EXCEPT ![t] = runs + 1]
    /\ engine' = [engine EXCEPT ![t] = e]
    /\ nops' = [nops EXCEPT ![t] = 0]
    /\ own_out' = [own_out EXCEPT ![t] = <<>>]
    /\ own_figs' = [own_figs EXCEPT ![t] = <<>>]
    /\ raised' = [raised EXCEPT ![t] = NoExc]
    /\ completed' = [completed EXCEPT ![t] = FALSE]
    /\ post_raised' = [post_raised EXCEPT ![t] = FALSE]
    /\ overlap' = [r \in RunIds |->
                     IF r = runs + 1 THEN {rid[u] : u \in Live}
                     ELSE IF r \in {rid[u] : u \in Live} THEN overlap[r] \cup {runs + 1}
                     ELSE overlap[r]]
    /\ corr' = [corr EXCEPT ![t] = NoCall]
    /\ query' = [query EXCEPT ![t] = NoCall]
    /\ UNCHANGED <<duckdb_conn, twice, NotEngine>>

\* Mutant of FreshBuffer: the agent keeps one StringIO and every call writes
\* after the text of the call before.
CarriedBuffer(bs, r) == [bs EXCEPT ![r] = IF r > 1 THEN bs[r - 1] ELSE <<>>]

\* stdout_capture = io.StringIO(): the call's own, empty buffer.
FreshBuffer(bs, r) == [bs EXCEPT ![r] = <<>>]

(***************************************************************************)
(* execute_code, up to the exec of the code string: the result object and  *)
(* the namespace are built, and redirect_stdout swaps sys.stdout.          *)
(***************************************************************************)
CallExecuteCode(t) ==
    /\ StartRun(t, "exec")
    /\ res' = [res EXCEPT ![t] = ExecResultInit]
    /\ ns' = [ns EXCEPT ![t] = BuildExecGlobals(self_globals)]
    /\ saved' = [saved EXCEPT ![t] = sys_stdout]
    /\ sys_stdout' = runs + 1
    /\ bufs' = FreshBuffer(bufs, runs + 1)
    /\ pc' = [pc EXCEPT ![t] = "Running"]
    /\ Logged(t, [op |-> "execute_code"])
    /\ UNCHANGED <<save_path, self_globals, open_figs, wrote, bound_before>>

(***************************************************************************)
(* visualize_data, up to the exec of the code string: the save path is     *)
(* defaulted, the payload is adapted, and local_vars is built, which       *)
(* creates the default figure.  A payload pd.DataFrame cannot take ends    *)
(* the call before any code runs.                                          *)
(***************************************************************************)
CallVisualizeData(t, payload, path) ==
    /\ StartRun(t, "viz")
    /\ save_path' = [save_path EXCEPT ![t] = EffectivePath(path)]
    /\ saved' = [saved EXCEPT ![t] = 0]
    /\ IF DOMAIN Adapt(payload) = {} /\ FallbackRaises(payload)
       THEN /\ res' = [res EXCEPT ![t] =
                         [VizResultInit EXCEPT
                            !.error = PyStr(<<"Could not convert data to DataFrame">>)]]
            /\ pc' = [pc EXCEPT ![t] = "Failed"]
            /\ UNCHANGED <<ns, open_figs>>
       ELSE /\ res' = [res EXCEPT ![t] = VizResultInit]
            /\ ns' = [ns EXCEPT ![t] = BuildLocalVars]
            /\ open_figs' = Append(open_figs, Fig(runs + 1, 0, TRUE))
            /\ pc' = [pc EXCEPT ![t] = "Running"]
    /\ Logged(t, [op |-> "visualize_data", data |-> payload, save_path |-> path])
    /\ UNCHANGED <<self_globals, sys_stdout, bufs, wrote, bound_before>>

(***************************************************************************)
(* The statements of the code string.                                      *)
(***************************************************************************)
CanStep(t) == pc[t] = "Running" /\ nops[t] < MaxOps

\* print(...): written to whatever sys.stdout is at that moment.  The text
\* printed is identified by the position of the statement in its code
\* string.  Only the run that owns a StringIO ever reads it, so text written
\* to the buffer of a run that has returned is not kept.
Printed(t) == nops[t] + 1

PrintStmt(t) ==
    /\ CanStep(t)
    /\ nops' = [nops EXCEPT ![t] = @ + 1]
    /\ own_out' = [own_out EXCEPT ![t] = Append(@, Printed(t))]
    /\ bufs' = IF sys_stdout \in {rid[u] : u \in Threads} \ {0}
               THEN [bufs EXCEPT ![sys_stdout] = Append(@, Printed(t))]
               ELSE bufs
    /\ Logged(t, [op |-> "print"])
    /\ UNCHANGED <<pc, engine, rid, ns, res, saved, save_path, self_globals,
                   sys_stdout, open_figs, wrote, runs, own_figs, raised,
                   completed, post_raised, bound_before, overlap>>
    /\ UNCHANGED <<corr, query, duckdb_conn, twice, NotEngine>>

\* plt.figure() (directly or through a plot_* helper): a new registry entry.
NewFigure(t, ok) ==
    /\ CanStep(t)
    /\ nops' = [nops EXCEPT ![t] = @ + 1]
    /\ LET f == Fig(rid[t], Len(own_figs[t]) + 1, ok)
       IN /\ open_figs' = Append(open_figs, f)
          /\ own_figs' = [own_figs EXCEPT ![t] = Append(@, f)]
    /\ Logged(t, [op |-> "figure", ok |-> ok])
    /\ UNCHANGED <<pc, engine, rid, ns, res, saved, save_path, self_globals,
                   sys_stdout, bufs, wrote, runs, own_out, raised,
                   completed, post_raised, bound_before, overlap>>
    /\ UNCHANGED <<corr, query, duckdb_conn, twice, NotEngine>>

Assignments ==
    {<<"result", "v1">>, <<"results", "v1">>, <<"x", "df">>, <<"pd", "v1">>,
     <<"x", "big">>, <<"get_logs", "df">>}

\* name = value: binds or rebinds the name in the code's namespace.
Assign(t, name, val) ==
    /\ CanStep(t)
    /\ nops' = [nops EXCEPT ![t] = @ + 1]
    /\ ns' = [ns EXCEPT ![t][name] = val]
    /\ self_globals' = IF engine[t] = "exec"
                       THEN SelfGlobalsAfter(self_globals, ns'[t])
                       ELSE self_globals
    /\ Logged(t, [op |-> "assign", name |-> name, val |-> val])
    /\ UNCHANGED <<pc, engine, rid, res, saved, save_path, sys_stdout, bufs,
                   open_figs, wrote, runs, own_out, own_figs, raised,
                   completed, post_raised, bound_before, overlap>>
    /\ UNCHANGED <<corr, query, duckdb_conn, twice, NotEngine>>

\* plt.close('all'): every figure of the process leaves the registry.
CloseAll(t) ==
    /\ CanStep(t)
    /\ nops' = [nops EXCEPT ![t] = @ + 1]
    /\ open_figs' = <<>>
    /\ Logged(t, [op |-> "close_all"])
    /\ UNCHANGED <<pc, engine, rid, ns, res, saved, save_path, self_globals,
                   sys_stdout, bufs, wrote, runs, own_out, own_figs, raised,
                   completed, post_raised, bound_before, overlap>>
    /\ UNCHANGED <<corr, query, duckdb_conn, twice, NotEngine>>

(***************************************************************************)
(* The code raises.  A syntax error is raised by the compile, before any   *)
(* statement runs.  redirect_stdout restores the stream it saved on the    *)
(* way out; the except clause takes only instances of Exception.           *)
(***************************************************************************)
\* The result execute_code returns from its except clause.
ExecFailure(r, kind, msg) ==
    [r EXCEPT !.success = FALSE, !.error = ExecErrorText(kind, msg)]

\* The result visualize_data returns from its except clause.
VizFailure(r, kind, msg) ==
    [success |-> r.success, image |-> r.image, saved_path |-> r.saved_path,
     error |-> VizErrorText(kind, msg), data |-> r.data,
     traceback |-> FormatExc(kind, msg)]

Raise(t, kind, msg) ==
    /\ pc[t] = "Running"
    /\ kind = "SyntaxError" => nops[t] = 0
    /\ raised' = [raised EXCEPT ![t] = Exc(kind, msg)]
    /\ sys_stdout' = IF engine[t] = "exec" THEN saved[t] ELSE sys_stdout
    /\ IF IsException(kind)
       THEN /\ res' = [res EXCEPT ![t] =
                         IF engine[t] = "exec" THEN ExecFailure(@, kind, msg)
                         ELSE VizFailure(@, kind, msg)]
            /\ pc' = [pc EXCEPT ![t] = "Failed"]
       ELSE /\ res' = [res EXCEPT ![t] = NoResult]
            /\ pc' = [pc EXCEPT ![t] = "Escaped"]
    /\ Logged(t, [op |-> "raise", kind |-> kind, msg |-> msg])
    /\ UNCHANGED <<engine, rid, ns, nops, saved, save_path, self_globals, bufs,
                   open_figs, wrote, runs, own_out, own_figs, completed,
                   post_raised, bound_before, overlap>>
    /\ UNCHANGED <<corr, query, duckdb_conn, twice, NotEngine>>

(***************************************************************************)
(* plot_correlation(df, cols), the helper execute_code binds.  cols names  *)
(* columns of df; count and size are its numeric columns.                  *)
(***************************************************************************)
NumericColumns == {"count", "size"}
CorrRequests == {<<"count">>, <<"count", "level">>, <<"count", "size">>}

\* df[cols].select_dtypes(include=[np.number]).columns
NumericOf(cols) == SelectSeq(cols, LAMBDA c : c \in NumericColumns)

\* Mutant of CorrelationRaises: only the number of requested columns is
\* checked.
CorrelationRaisesOnCount(cols) == Len(cols) < 2

\* The two guards of _plot_correlation.
CorrelationRaises(cols) == Len(cols) < 2 \/ Len(NumericOf(cols)) < 2

CorrelationMessage(cols) ==
    IF Len(cols) < 2 THEN <<"Need at least 2 columns for correlation analysis">>
    ELSE <<"Need at least 2 numeric columns for correlation analysis">>

\* The call, not enclosed in a try by the code string: it raises ValueError,
\* which ends the run as any exception of the code does, or it draws the
\* heatmap on a new figure.
PlotCorrelation(t, cols) ==
    /\ CanStep(t)
    /\ engine[t] = "exec"
    /\ corr' = [corr EXCEPT ![t] = [cols |-> cols]]
    /\ IF CorrelationRaises(cols)
       THEN /\ raised' = [raised EXCEPT ![t] = Exc("ValueError", CorrelationMessage(cols))]
            /\ sys_stdout' = saved[t]
            /\ res' = [res EXCEPT ![t] =
                         ExecFailure(@, "ValueError", CorrelationMessage(cols))]
            /\ pc' = [pc EXCEPT ![t] = "Failed"]
            /\ UNCHANGED <<nops, open_figs, own_figs>>
       ELSE /\ nops' = [nops EXCEPT ![t] = @ + 1]
            /\ LET f == Fig(rid[t], Len(own_figs[t]) + 1, TRUE)
               IN /\ open_figs' = Append(open_figs, f)
                  /\ own_figs' = [own_figs EXCEPT ![t] = Append(@, f)]
            /\ UNCHANGED <<raised, sys_stdout, res, pc>>
    /\ Logged(t, [op |-> "plot_correlation", cols |-> cols])
    /\ UNCHANGED <<engine, rid, ns, saved, save_path, self_globals, bufs,
                   wrote, runs, own_out, completed, post_raised, bound_before,
                   overlap>>
    /\ UNCHANGED <<query, duckdb_conn, twice, NotEngine>>

(***************************************************************************)
(* execute_query(sql), the helper execute_code binds to the agent's        *)
(* connection.  The connection answers with a table, or raises: on a       *)
(* statement it cannot parse, and on every statement once it is closed.    *)
(***************************************************************************)
Connections == {"open", "closed"}
Statements == {"SELECT", "SELEC"}

Answer(value) == [raises |-> FALSE, value |-> value]
Failure(kind, msg) == [raises |-> TRUE, kind |-> kind, msg |-> msg]

\* self.duckdb_conn.execute(query).fetchdf()
StoreAnswer(conn, sql) ==
    IF conn = "closed" THEN Failure("duckdb.Error", <<"Connection already closed">>)
    ELSE IF sql = "SELEC" THEN Failure("duckdb.Error", <<"Parser Error">>)
    ELSE Answer("df")

\* Mutant of ExecuteQueryHelper: the helper catches the connection's
\* exception and answers None.
ExecuteQuerySwallows(answer) == IF answer.raises THEN Answer(None) ELSE answer

\* lambda query: self.duckdb_conn.execute(query).fetchdf() -- the lambda has
\* no try: what the connection raises, the call raises.
ExecuteQueryHelper(answer) == answer

\* `x = execute_query(sql)`, bare or inside a try whose except clause takes
\* the exception and goes on.  Unhandled, the exception ends the run as any
\* exception of the code does.
ExecuteQuery(t, sql, handled) ==
    /\ CanStep(t)
    /\ engine[t] = "exec"
    /\ LET answer == StoreAnswer(duckdb_conn, sql)
           outcome == ExecuteQueryHelper(answer)
       IN /\ query' = [query EXCEPT ![t] =
                         [sql |-> sql, failed |-> answer.raises,
                          msg |-> IF answer.raises THEN answer.msg ELSE <<>>,
                          handled |-> handled, raised |-> outcome.raises]]
          /\ IF outcome.raises /\ ~handled
             THEN /\ raised' = [raised EXCEPT ![t] = Exc(outcome.kind, outcome.msg)]
                  /\ sys_stdout' = saved[t]
                  /\ res' = [res EXCEPT ![t] =
                               ExecFailure(@, outcome.kind, outcome.msg)]
                  /\ pc' = [pc EXCEPT ![t] = "Failed"]
                  /\ UNCHANGED <<nops, ns, self_globals>>
             ELSE /\ nops' = [nops EXCEPT ![t] = @ + 1]
                  /\ ns' = IF outcome.raises THEN ns
                           ELSE [ns EXCEPT ![t]["x"] = outcome.value]
                  /\ self_globals' = SelfGlobalsAfter(self_globals, ns'[t])
                  /\ UNCHANGED <<raised, sys_stdout, res, pc>>
    /\ Logged(t, [op |-> "execute_query", sql |-> sql, handled |-> handled])
    /\ UNCHANGED <<engine, rid, saved, save_path, bufs, open_figs, wrote, runs,
                   own_out, own_figs, completed, post_raised, bound_before,
                   overlap>>
    /\ UNCHANGED <<corr, duckdb_conn, twice, NotEngine>>

(***************************************************************************)
(* The code runs off its end: post-processing, then the return.            *)
(***************************************************************************)
\* What savefig raises on a figure it cannot render or a path it cannot write.
RenderError == Exc("ValueError", <<"savefig">>)

\* execute_code after exec: every open figure is serialized in registry
\* order and the registry is cleared; the DataFrames of the namespace are
\* summarised; the result slot is read; then success and output are set.
\* A savefig that raises lands in the except clause with the figures
\* serialized so far already appended.
\* Mutant of ExecSuccess: result['success'] = True is missing.
ExecSuccessNoFlag(r, figs, env, text) ==
    [r EXCEPT !.figures = Images(figs),
              !.dataframes = Summaries(env, NameOrder),
              !.result = GrabResult(env),
              !.output = text]

ExecSuccess(r, figs, env, text) ==
    [r EXCEPT !.figures = Images(figs),
              !.dataframes = Summaries(env, NameOrder),
              !.result = GrabResult(env),
              !.success = TRUE,
              !.output = text]

CompleteExecuteCode(t) ==
    /\ pc[t] = "Running"
    /\ engine[t] = "exec"
    /\ completed' = [completed EXCEPT ![t] = TRUE]
    /\ sys_stdout' = saved[t]
    /\ IF OkPrefix(open_figs) = open_figs
       THEN /\ res' = [res EXCEPT ![t] =
                         ExecSuccess(@, open_figs, ns[t], bufs[rid[t]])]
            /\ open_figs' = <<>>
            /\ pc' = [pc EXCEPT ![t] = "Succeeded"]
            /\ UNCHANGED post_raised
       ELSE /\ res' = [res EXCEPT ![t] =
                         ExecFailure([@ EXCEPT !.figures = Images(OkPrefix(open_figs))],
                                     RenderError.kind, RenderError.msg)]
            /\ post_raised' = [post_raised EXCEPT ![t] = TRUE]
            /\ pc' = [pc EXCEPT ![t] = "Failed"]
            /\ UNCHANGED open_figs
    /\ Logged(t, [op |-> "end"])
    /\ UNCHANGED <<engine, rid, ns, nops, saved, save_path, self_globals, bufs,
                   wrote, runs, own_out, own_figs, raised, bound_before, overlap>>
    /\ UNCHANGED <<corr, query, duckdb_conn, twice, NotEngine>>

\* Mutant of VizSuccess: result["saved_path"] = save_path is missing.
VizSuccessNoSavedPath(r, figs, path, env) ==
    [r EXCEPT !.image = IF figs # <<>> THEN ToBase64(figs[Len(figs)]) ELSE @,
              !.data = GrabData(env),
              !.success = TRUE]

\* visualize_data after exec: when a figure is open, the current one (the
\* newest) is written to save_path, encoded into image and closed; then data
\* is read from results.
VizSuccess(r, figs, path, env) ==
    [r EXCEPT !.saved_path = IF figs # <<>> THEN path ELSE @,
              !.image = IF figs # <<>> THEN ToBase64(figs[Len(figs)]) ELSE @,
              !.data = GrabData(env),
              !.success = TRUE]

\* plt.close(): the current figure leaves the registry.
CloseCurrent(figs) == IF figs = <<>> THEN figs ELSE SubSeq(figs, 1, Len(figs) - 1)

CompleteVisualizeData(t) ==
    /\ pc[t] = "Running"
    /\ engine[t] = "viz"
    /\ completed' = [completed EXCEPT ![t] = TRUE]
    /\ IF open_figs # <<>> /\ (~Writable(save_path[t]) \/ ~open_figs[Len(open_figs)].ok)
       THEN /\ res' = [res EXCEPT ![t] =
                         VizFailure(@, RenderError.kind, RenderError.msg)]
            /\ post_raised' = [post_raised EXCEPT ![t] = TRUE]
            /\ pc' = [pc EXCEPT ![t] = "Failed"]
            /\ UNCHANGED <<open_figs, wrote>>
       ELSE /\ res' = [res EXCEPT ![t] =
                         VizSuccess(@, open_figs, save_path[t], ns[t])]
            /\ wrote' = [wrote EXCEPT ![t] = IF open_figs # <<>> THEN save_path[t] ELSE @]
            /\ open_figs' = CloseCurrent(open_figs)
            /\ pc' = [pc EXCEPT ![t] = "Succeeded"]
            /\ UNCHANGED post_raised
    /\ Logged(t, [op |-> "end"])
    /\ UNCHANGED <<engine, rid, ns, nops, saved, save_path, self_globals,
                   sys_stdout, bufs, runs, own_out, own_figs, raised,
                   bound_before, overlap>>
    /\ UNCHANGED <<corr, query, duckdb_conn, twice, NotEngine>>

(***************************************************************************)
(* The call is over: the caller has the result (or the exception), the     *)
(* call's locals are gone, and the thread is free for the next request.    *)
(***************************************************************************)
Terminal == {"Succeeded", "Failed", "Escaped"}

\* The code bound a new name and rebound a library name.
LeftBindings(env) == env["x"] # Unbound /\ env["pd"] \notin {Unbound, Lib}

Return(t) ==
    /\ pc[t] \in Terminal
    /\ pc' = [pc EXCEPT ![t] = "Idle"]
    /\ engine' = [engine EXCEPT ![t] = "none"]
    /\ rid' = [rid EXCEPT ![t] = 0]
    /\ ns' = [ns EXCEPT ![t] = [n \in Names |-> Unbound]]
    /\ nops' = [nops EXCEPT ![t] = 0]
    /\ res' = [res EXCEPT ![t] = NoResult]
    /\ saved' = [saved EXCEPT ![t] = 0]
    /\ save_path' = [save_path EXCEPT ![t] = None]
    /\ own_out' = [own_out EXCEPT ![t] = <<>>]
    /\ own_figs' = [own_figs EXCEPT ![t] = <<>>]
    /\ raised' = [raised EXCEPT ![t] = NoExc]
    /\ completed' = [completed EXCEPT ![t] = FALSE]
    /\ post_raised' = [post_raised EXCEPT ![t] = FALSE]
    /\ bound_before' = (bound_before \/ LeftBindings(ns[t]))
    /\ wrote' = [wrote EXCEPT ![t] = None]
    /\ bufs' = [r \in RunIds |-> IF r = rid[t] THEN <<>> ELSE bufs[r]]
    /\ open_figs' = Disown(open_figs, rid[t])
    /\ UNCHANGED <<self_globals, sys_stdout, runs, overlap>>
    /\ corr' = [corr EXCEPT ![t] = NoCall]
    /\ query' = [query EXCEPT ![t] = NoCall]
    /\ code' = [code EXCEPT ![t] = <<>>]
    /\ UNCHANGED <<duckdb_conn, twice, NotEngine>>

(***************************************************************************)
(* Specifications.  Spec: one caller, one call after another.              *)
(* ConcSpec: two threads whose calls overlap in any interleaving.          *)
(***************************************************************************)
Step(t) ==
    \/ CallExecuteCode(t)
    \/ \E p \in Payloads, path \in Paths : CallVisualizeData(t, p, path)
    \/ PrintStmt(t)
    \/ \E ok \in BOOLEAN : NewFigure(t, ok)
    \/ CloseAll(t)
    \/ \E cols \in CorrRequests : PlotCorrelation(t, cols)
    \/ \E a \in Assignments : Assign(t, a[1], a[2])
    \/ \E e \in Raisable : Raise(t, e[1], e[2])
    \/ CompleteExecuteCode(t)
    \/ CompleteVisualizeData(t)
    \/ Return(t)

Next == Step(1)

Spec == Init /\ [][Next]_vars

\* The statements of code strings that run side by side: they print, draw,
\* bind result, results, x and pd, and raise.
ConcAssignments == {a \in Assignments : a[2] \in {"v1", "df"} /\ a[1] # "get_logs"}

ConcStep(t) ==
    \/ CallExecuteCode(t)
    \/ \E p \in Payloads, path \in Paths : CallVisualizeData(t, p, path)
    \/ PrintStmt(t)
    \/ \E ok \in BOOLEAN : NewFigure(t, ok)
    \/ \E a \in ConcAssignments : Assign(t, a[1], a[2])
    \/ \E e \in Raisable : Raise(t, e[1], e[2])
    \/ CompleteExecuteCode(t)
    \/ CompleteVisualizeData(t)
    \/ Return(t)

ConcNext == \E t \in Threads : ConcStep(t)

ConcSpec == Init /\ [][ConcNext]_vars

(***************************************************************************)
(* RepeatSpec: one caller makes a request and, when it is over, makes the  *)
(* same request again: thread 1 holds the first call and its result,       *)
(* thread 2 the second.  The store is open or closed throughout.           *)
(***************************************************************************)
RepeatInit ==
    /\ RunsIdle
    /\ duckdb_conn \in Connections
    /\ twice = TRUE
    /\ AdapterIdle /\ AnalysisIdle /\ AgentIdle /\ CacheIdle

RepeatStep(t) ==
    \/ CallExecuteCode(t)
    \/ \E p \in Payloads, path \in Paths : CallVisualizeData(t, p, path)
    \/ PrintStmt(t)
    \/ \E ok \in BOOLEAN : NewFigure(t, ok)
    \/ CloseAll(t)
    \/ \E cols \in CorrRequests : PlotCorrelation(t, cols)
    \/ \E a \in Assignments : Assign(t, a[1], a[2])
    \/ \E sql \in Statements, handled \in BOOLEAN : ExecuteQuery(t, sql, handled)
    \/ \E e \in Raisable : Raise(t, e[1], e[2])
    \/ CompleteExecuteCode(t)
    \/ CompleteVisualizeData(t)

RepeatNext == \E t \in Threads : RepeatStep(t)

RepeatSpec == RepeatInit /\ [][RepeatNext]_vars

(***************************************************************************)
(* AdapterSpec: one call of visualize_data on any payload, from the call   *)
(* to the first lookup of a name by the code string.  The payload is       *)
(* adapted; the call returns at once when no table can be made of it;      *)
(* otherwise local_vars is built and the code string looks a name up.      *)
(***************************************************************************)
DatasetNames ==
    {"logs_df", "cluster_summary_df", "clusters_df", "trends_df", "breakdown_df",
     "query_df", "level_df", "time_df", "raw_data", "df"}

\* The keys of local_vars.
LocalNames(dfs) == DOMAIN dfs \cup {"pd", "plt", "sns", "np", "data", "fig", "results"}

AdapterInit ==
    /\ EngineInit
    /\ data \in AllPayloads
    /\ passed = data
    /\ dataframes = <<>>
    /\ vpc = "Called"
    /\ referred = None
    /\ AnalysisIdle /\ AgentIdle /\ CacheIdle

\* From `dataframes = {}` to local_vars, or to the early return.
AdaptPayload ==
    /\ vpc = "Called"
    /\ IF DOMAIN Adapt(data) # {}
       THEN /\ dataframes' = Adapt(data)
            /\ data' = DataAfter(data)
            /\ vpc' = "Context"
       ELSE IF FallbackRaises(data)
       THEN /\ vpc' = "Rejected"
            /\ UNCHANGED <<data, dataframes>>
       ELSE /\ dataframes' = Fallback(data)
            /\ vpc' = "Context"
            /\ UNCHANGED data
    /\ UNCHANGED <<passed, referred>>
    /\ UNCHANGED NotAdapter

\* exec(code, {}, local_vars) on a code string that reads the name n: a name
\* that is no key of local_vars raises NameError.
ExecCode(n) ==
    /\ vpc = "Context"
    /\ referred' = n
    /\ vpc' = IF n \in LocalNames(dataframes) THEN "Executed" ELSE "NameError"
    /\ UNCHANGED <<data, passed, dataframes>>
    /\ UNCHANGED NotAdapter

AdapterNext == AdaptPayload \/ \E n \in DatasetNames : ExecCode(n)

AdapterSpec == AdapterInit /\ [][AdapterNext]_vars

\* The adapter is done with the payload.
Adapted == vpc \in {"Context", "Executed", "NameError", "Rejected"}

(***************************************************************************)
(* AnalysisSpec: one call of analyze_logs.  The request to the code        *)
(* generation agent is built, the agent answers with a code string,        *)
(* execute_code runs it, and an AnalysisResult is made of what it          *)
(* returned.  The whole is inside one try whose except clause answers      *)
(* "Code generation failed".                                               *)
(*                                                                         *)
(* The request is built with self._get_available_data() and                *)
(* self._get_available_functions(), which the class does not define: on an *)
(* agent that was not given them the lookup raises AttributeError inside   *)
(* the try.  has_helpers tells whether the agent at hand has them.         *)
(***************************************************************************)
CodeStrings == {"c1", "c2"}

\* Values the code may leave in `result`: nothing, a dict ({} or a dict with
\* entries), a DataFrame, a number.
Dicts == {EmptyDict, "v1"}
ResultValues == {None} \cup Dicts \cup {"df", "n7"}

\* The namespace a code string leaves behind: result, and perhaps a table x.
FinalNamespaces ==
    {[[BuildExecGlobals(InitGlobals) EXCEPT !["result"] = v] EXCEPT !["x"] = x] :
        v \in ResultValues, x \in {Unbound, "df"}}

\* What execute_code returns.
ExecutionResults ==
    {ExecSuccess(ExecResultInit, figs, env, text) :
        figs \in {<<>>, <<Fig(1, 1, TRUE)>>}, env \in FinalNamespaces,
        text \in {<<>>, <<1>>}}
    \cup {ExecFailure(ExecResultInit, e[1], e[2]) : e \in {x \in Raisable : IsException(x[1])}}

\* What the call of the code generation agent raises (the API is down).
GenerationErrors == {<<"Exception", <<"Connection error">>>>}

\* class AnalysisResult(BaseModel): result: Optional[Dict[str, Any]].  The
\* other fields get what execute_code always puts in them: a bool, two
\* strings, a list of strings, a list of dicts.
Validates(r) == r.result = None \/ r.result \in Dicts

ValidationError == <<"ValidationError", <<"1 validation error for AnalysisResult">>>>
AttributeError ==
    <<"AttributeError", <<"object has no attribute '_get_available_data'">>>>

\* AnalysisResult(success=..., ..., generated_code=code_response.code)
AnalysisResult(r, generated) ==
    [success |-> r.success, output |-> r.output, error |-> r.error,
     figures |-> r.figures, dataframes |-> r.dataframes, result |-> r.result,
     generated_code |-> generated]

\* The except clause: f"Code generation failed: {str(e)}".
GenerationFailed(msg) ==
    [success |-> FALSE, output |-> <<>>,
     error |-> <<"Code generation failed: ">> \o msg,
     figures |-> <<>>, dataframes |-> <<>>, result |-> None,
     generated_code |-> None]

AnalysisInit ==
    /\ EngineInit /\ AdapterIdle /\ AgentIdle /\ CacheIdle
    /\ apc = "Called"
    /\ has_helpers \in BOOLEAN
    /\ code_response = NoCall
    /\ execution_result = NoCall
    /\ analysis = NoCall

\* The request is built and the agent is run: AttributeError without the
\* two describing methods; else the agent's exception or its code string.
GenerateCode(outcome) ==
    /\ apc = "Called"
    /\ IF ~has_helpers
       THEN /\ analysis' = GenerationFailed(AttributeError[2])
            /\ apc' = "Returned"
            /\ UNCHANGED code_response
       ELSE IF outcome \in CodeStrings
       THEN /\ code_response' = [code |-> outcome]
            /\ apc' = "Generated"
            /\ UNCHANGED analysis
       ELSE /\ analysis' = GenerationFailed(outcome[2])
            /\ apc' = "Returned"
            /\ UNCHANGED code_response
    /\ UNCHANGED <<has_helpers, execution_result>>
    /\ UNCHANGED NotAnalysis

\* execution_result = self.execute_code(code_response.code)
RunGeneratedCode(r) ==
    /\ apc = "Generated"
    /\ execution_result' = r
    /\ apc' = "Executed"
    /\ UNCHANGED <<has_helpers, code_response, analysis>>
    /\ UNCHANGED NotAnalysis

\* The code string called sys.exit(): SystemExit leaves execute_code and,
\* not being an Exception, analyze_logs too.
GeneratedCodeExits ==
    /\ apc = "Generated"
    /\ apc' = "Escaped"
    /\ UNCHANGED <<has_helpers, code_response, execution_result, analysis>>
    /\ UNCHANGED NotAnalysis

\* return AnalysisResult(...), whose validation raises inside the try.
Assemble ==
    /\ apc = "Executed"
    /\ analysis' = IF Validates(execution_result)
                   THEN AnalysisResult(execution_result, code_response.code)
                   ELSE GenerationFailed(ValidationError[2])
    /\ apc' = "Returned"
    /\ UNCHANGED <<has_helpers, code_response, execution_result>>
    /\ UNCHANGED NotAnalysis

AnalysisNext ==
    \/ \E outcome \in CodeStrings \cup GenerationErrors : GenerateCode(outcome)
    \/ \E r \in ExecutionResults : RunGeneratedCode(r)
    \/ GeneratedCodeExits
    \/ Assemble

AnalysisSpec == AnalysisInit /\ [][AnalysisNext]_vars

\* The generated code string was handed to execute_code and run.
CodeExecuted == execution_result # NoCall \/ apc = "Escaped"

(***************************************************************************)
(* CacheSpec: GeminiVectorizer.get_embedding and its embedding_cache, a    *)
(* dict, kept here as its entries in insertion order.                      *)
(***************************************************************************)
MaxCapacity == 2
Texts == {"a", "b", "c"}

\* What the API call comes to: requests.post raises; the response is not
\* ok; its JSON has no embedding; the embedding is []; an embedding.
Responses == {"raises", "not_ok", "no_embedding", "empty", "e1", "e2"}
Embeddings == {"e1", "e2"}

CacheInit ==
    /\ EngineInit /\ AdapterIdle /\ AnalysisIdle /\ AgentIdle
    /\ embedding_cache = <<>>
    /\ cache_capacity \in 0..MaxCapacity
    /\ last_get = NoCall

\* text in self.embedding_cache
Cached(cache, text) == \E i \in 1..Len(cache) : cache[i].text = text

\* self.embedding_cache[text]
Lookup(cache, text) ==
    cache[CHOOSE i \in 1..Len(cache) : cache[i].text = text].embedding

\* if len(cache) >= capacity: if cache: cache.pop(next(iter(cache)))
\* then cache[text] = embedding
Store(cache, capacity, text, embedding) ==
    Append(IF Len(cache) >= capacity /\ cache # <<>> THEN Tail(cache) ELSE cache,
           [text |-> text, embedding |-> embedding])

\* What get_embedding returns for a response of the API.
EmbeddingOf(response) ==
    IF response \in Embeddings THEN response
    ELSE IF response = "empty" THEN "[]"
    ELSE None

GetEmbedding(text, has_key, response) ==
    /\ IF Cached(embedding_cache, text)
       THEN /\ last_get' = [text |-> text, hit |-> TRUE, requested |-> FALSE,
                            returned |-> Lookup(embedding_cache, text)]
            /\ UNCHANGED embedding_cache
       ELSE IF ~has_key
       THEN /\ last_get' = [text |-> text, hit |-> FALSE, requested |-> FALSE,
                            returned |-> None]
            /\ UNCHANGED embedding_cache
       ELSE /\ last_get' = [text |-> text, hit |-> FALSE, requested |-> TRUE,
                            returned |-> EmbeddingOf(response)]
            /\ embedding_cache' =
                 IF response \in Embeddings
                 THEN Store(embedding_cache, cache_capacity, text, response)
                 ELSE embedding_cache
    /\ UNCHANGED cache_capacity
    /\ UNCHANGED NotCache

CacheNext ==
    \E text \in Texts, has_key \in BOOLEAN, response \in Responses :
        GetEmbedding(text, has_key, response)

CacheSpec == CacheInit /\ [][CacheNext]_vars

(***************************************************************************)
(* AgentSpec: LogAIAgent.initialize and LogAIAgent.process_query on one    *)
(* agent.  Both methods read is_initialized, chat_history and cpp_wrapper, *)
(* which __init__ as given does not assign; the agent is taken as the      *)
(* methods presuppose it: not initialized, without a file, with an empty   *)
(* history and a wrapper whose four calls answer True or False.            *)
(***************************************************************************)
MaxQueries == 2
Files == {"a.log", "b.log"}
Questions == {"q1", "q2"}

\* The steps of initialize, in the order of its code.
InitSteps ==
    <<"parse_log_file", "extract_templates", "store_templates_in_milvus",
      "store_attributes_in_duckdb">>

\* What each wrapper call would answer: the wrapper turns an exception of
\* the library into False.
StepResults == [1..Len(InitSteps) -> BOOLEAN]

AgentInit ==
    /\ EngineInit /\ AdapterIdle /\ AnalysisIdle /\ CacheIdle
    /\ is_initialized = FALSE
    /\ log_file = None
    /\ chat_history = <<>>
    /\ last_init = NoCall
    /\ last_query = NoCall

\* The first step that answers False; past the last step when none does.
FirstFailure(results) ==
    IF \A i \in DOMAIN results : results[i] THEN Len(InitSteps) + 1
    ELSE CHOOSE i \in DOMAIN results :
            ~results[i] /\ \A j \in 1..(i - 1) : results[j]

\* Mutant of StepsCalled: a step that fails does not end the call.
StepsCalledAll(results) == Len(InitSteps)

\* `if not self.cpp_wrapper.<step>(): return False`: the number of steps
\* called.
StepsCalled(results) == Min(FirstFailure(results), Len(InitSteps))

Initialize(file, results) ==
    /\ LET n == StepsCalled(results)
           ok == \A i \in 1..n : results[i]
       IN /\ last_init' = [file |-> file, results |-> results,
                           called |-> SubSeq(InitSteps, 1, n),
                           returned |-> ok,
                           was |-> [is_initialized |-> is_initialized,
                                    log_file |-> log_file]]
          /\ log_file' = IF ok THEN file ELSE log_file
          /\ is_initialized' = IF ok THEN TRUE ELSE is_initialized
    /\ UNCHANGED <<chat_history, last_query>>
    /\ UNCHANGED NotAgent

\* What self.agent.run_sync comes to: a final answer, or an exception.
RunOutcomes == {"answers", "raises"}
AnswerTo(q) == <<"answer to", q>>
Entry(role, content) == [role |-> role, content |-> content]

\* except Exception: the error message is returned; chat_history is left
\* as the try left it.
AfterFailedRun(history) == history

ProcessQuery(q, outcome) ==
    /\ Len(chat_history) < 2 * MaxQueries
    /\ last_query' = [query |-> q, was_initialized |-> is_initialized,
                      outcome |-> outcome, before |-> chat_history]
    /\ chat_history' =
         IF ~is_initialized THEN chat_history
         ELSE IF outcome = "answers"
         THEN chat_history \o <<Entry("user", q), Entry("assistant", AnswerTo(q))>>
         ELSE AfterFailedRun(Append(chat_history, Entry("user", q)))
    /\ UNCHANGED <<is_initialized, log_file, last_init>>
    /\ UNCHANGED NotAgent

AgentNext ==
    \/ \E file \in Files, results \in StepResults : Initialize(file, results)
    \/ \E q \in Questions, outcome \in RunOutcomes : ProcessQuery(q, outcome)

AgentSpec == AgentInit /\ [][AgentNext]_vars

(***************************************************************************)
(* The result object as the engine's contract names its fields, read from  *)
(* the keys each entry point uses.                                         *)
(***************************************************************************)
Returned(t) == pc[t] \in {"Succeeded", "Failed"}

FiguresOf(t) ==
    IF engine[t] = "exec" THEN res[t].figures
    ELSE IF res[t].image = PyNone THEN <<>> ELSE <<res[t].image>>

TablesOf(t) == IF engine[t] = "exec" THEN res[t].dataframes ELSE <<>>

ResultOf(t) == IF engine[t] = "exec" THEN res[t].result ELSE res[t].data

ErrorOf(t) ==
    IF engine[t] = "exec" THEN res[t].error
    ELSE IF res[t].error = PyNone THEN <<>> ELSE res[t].error.str

\* visualize_data's result has no output key.
OutputOf(t) == IF engine[t] = "exec" THEN res[t].output ELSE <<>>

\* sub occurs in text.
Contains(text, sub) ==
    \E i \in 1..(Len(text) + 1) :
        /\ i + Len(sub) - 1 <= Len(text)
        /\ SubSeq(text, i, i + Len(sub) - 1) = sub

Empty(v) == v \in {Unbound, None, EmptyDict}

(***************************************************************************)
(* C1.  Whatever the code string does, the call returns a result object:   *)
(* no exception propagates out of execute_code / visualize_data.           *)
(***************************************************************************)
C1_NoExceptionEscapes == \A t \in Threads : pc[t] # "Escaped"

(***************************************************************************)
(* C2.  A result returned with success = false has no figures, no tables,  *)
(* no result and a non-empty error text.                                   *)
(***************************************************************************)
C2_FailedResultIsEmpty ==
    \A t \in Threads :
        Returned(t) /\ ~res[t].success =>
            /\ FiguresOf(t) = <<>>
            /\ TablesOf(t) = <<>>
            /\ ResultOf(t) = None
            /\ ErrorOf(t) # <<>>

(***************************************************************************)
(* C3 as claimed.  Whenever the code string runs to completion without     *)
(* raising, the run ends Succeeded with success = true.                    *)
(***************************************************************************)
C3_CompletionSucceeds ==
    \A t \in Threads :
        completed[t] /\ pc[t] \in Terminal =>
            pc[t] = "Succeeded" /\ res[t].success

(***************************************************************************)
(* C3 as amended.  When the code string runs to completion without         *)
(* raising, the run ends in exactly one of Succeeded and Failed:           *)
(* Succeeded, with success = true, when post-processing raises nothing;    *)
(* Failed, with success = false, when post-processing raises.  Succeeded   *)
(* is reached in no other way.                                             *)
(***************************************************************************)
C3_CompletionOutcome ==
    \A t \in Threads :
        /\ completed[t] => Returned(t)
        /\ completed[t] /\ ~post_raised[t] => pc[t] = "Succeeded" /\ res[t].success
        /\ completed[t] /\ post_raised[t] => pc[t] = "Failed" /\ ~res[t].success
        /\ pc[t] = "Succeeded" => completed[t] /\ raised[t] = NoExc

\* A run whose code drew a figure, ran off its end and was post-processed.
C3_Witness ==
    \E t \in Threads :
        /\ pc[t] = "Succeeded" /\ completed[t] /\ res[t].success
        /\ engine[t] = "exec" /\ own_figs[t] # <<>>

(***************************************************************************)
(* C4.  When the code raises, the run ends Failed and error holds the      *)
(* exception's message together with the full stack trace text.            *)
(***************************************************************************)
C4_RaiseFailsWithTrace ==
    \A t \in Threads :
        raised[t] # NoExc /\ pc[t] \in Terminal =>
            /\ pc[t] = "Failed"
            /\ ~res[t].success
            /\ Contains(ErrorOf(t), raised[t].msg)
            /\ Contains(ErrorOf(t), FormatExc(raised[t].kind, raised[t].msg))

(***************************************************************************)
(* C5.  Once a run has reached Succeeded or Failed, none of its figures    *)
(* (the default figure included) is still open.                            *)
(***************************************************************************)
C5_NoFigureLeftOpen ==
    \A t \in Threads :
        Returned(t) => \A i \in 1..Len(open_figs) : open_figs[i].run # rid[t]

(***************************************************************************)
(* C6.  The figures of a successful run are the images of the figures its  *)
(* own code created, in creation order, and nothing else.                  *)
(***************************************************************************)
C6_FiguresAreOwn ==
    \A t \in Threads :
        pc[t] = "Succeeded" => FiguresOf(t) = Images(own_figs[t])

(***************************************************************************)
(* C7.  When two runs overlap, each result's output is exactly what its    *)
(* own code printed and its figures hold nothing the other run drew.       *)
(***************************************************************************)
C7_NoInterference ==
    \A t \in Threads :
        pc[t] = "Succeeded" /\ engine[t] = "exec" /\ overlap[rid[t]] # {} =>
            /\ OutputOf(t) = own_out[t]
            /\ \A i \in 1..Len(FiguresOf(t)) : FiguresOf(t)[i].run \notin overlap[rid[t]]

(***************************************************************************)
(* C8.  The namespace is built from scratch for every run: when the code   *)
(* starts, no name bound or rebound by an earlier run is visible and the   *)
(* result slot is empty; while the code runs, the caller's result object   *)
(* is as the caller built it; and self.globals never changes.              *)
(***************************************************************************)
C8_FreshContext ==
    /\ self_globals["pd"] = Lib
    /\ \A n \in Names \ {"pd"} : self_globals[n] = Unbound
    /\ \A t \in Threads :
         pc[t] = "Running" =>
            /\ nops[t] = 0 =>
                 /\ ns[t]["pd"] = Lib
                 /\ ns[t]["x"] = Unbound
                 /\ Empty(ns[t]["result"])
                 /\ Empty(ns[t]["results"])
            /\ engine[t] = "exec" => ns[t]["result"] # Unbound
            /\ ~res[t].success
            /\ FiguresOf(t) = <<>> /\ TablesOf(t) = <<>> /\ ResultOf(t) = None

\* A later run starts after an earlier one bound a new name and rebound pd.
C8_Witness ==
    \E t \in Threads :
        bound_before /\ pc[t] = "Running" /\ nops[t] = 0 /\ rid[t] >= 2

C10_OutputIsOwnPrints ==
    \A t \in Threads :
        pc[t] = "Succeeded" => OutputOf(t) = own_out[t]

(***************************************************************************)
(* C11.  After a successful execute_code run, dataframes holds exactly one *)
(* summary for each name of the final namespace that is bound to a         *)
(* DataFrame, the names the loop skips excluded.  The summary carries the  *)
(* name, the table's true row and column counts, its column names and its  *)
(* first rows; the row sample is the first min(5, rows) rows, so it never  *)
(* has more than 5.                                                        *)
(***************************************************************************)
TabularBindings(env) ==
    {n \in Names \ SkippedNames : env[n] \in DataFrames}

C11_TableSummaries ==
    \A t \in Threads :
        pc[t] = "Succeeded" /\ engine[t] = "exec" =>
            LET tabs == res[t].dataframes
                env == ns[t]
            IN /\ Len(tabs) = Cardinality(TabularBindings(env))
               /\ \A i \in 1..Len(tabs) :
                    /\ tabs[i].name \in TabularBindings(env)
                    /\ Len(tabs[i].head) <= 5
               /\ \A n \in TabularBindings(env) :
                    \E i \in 1..Len(tabs) :
                        /\ tabs[i].name = n
                        /\ tabs[i].shape = <<NRows(env[n]), Len(Columns(env[n]))>>
                        /\ tabs[i].columns = Columns(env[n])
                        /\ Len(tabs[i].head) = Min(5, NRows(env[n]))
                        /\ \A j \in 1..Len(tabs[i].head) :
                             tabs[i].head[j] = Row(env[n], j)

\* execute_code succeeded on code that bound x to a table longer than the
\* sample and rebound the helper name get_logs to a table.
C11_Witness ==
    \E t \in Threads :
        /\ pc[t] = "Succeeded" /\ engine[t] = "exec"
        /\ ns[t]["x"] = "big" /\ ns[t]["get_logs"] = "df"
        /\ Len(res[t].dataframes) = 1
        /\ res[t].dataframes[1].shape[1] > 5
        /\ Len(res[t].dataframes[1].head) = 5

(***************************************************************************)
(* The datasets the dispatch policy names for a mapping payload, each      *)
(* recognized key taken on its own.                                        *)
(***************************************************************************)
ShapeKeys(d) ==
    {k \in {"logs", "clusters", "trends", "breakdown", "rows", "statistics"} :
        Has(d, k) /\ (k = "rows" => Has(d, "columns"))}

DatasetsOfKey(d, k) ==
    CASE k = "logs" -> {"logs_df"}
      [] k = "clusters" -> {"cluster_summary_df", "clusters_df"}
      [] k = "trends" -> {"trends_df"}
      [] k = "breakdown" -> {"breakdown_df"}
      [] k = "rows" -> {"query_df"}
      [] k = "statistics" ->
            (IF Get(d, k).level_counts # Absent THEN {"level_df"} ELSE {})
            \cup (IF Get(d, k).time_stats # Absent THEN {"time_df"} ELSE {})

ExpectedDatasets(d) == UNION {DatasetsOfKey(d, k) : k \in ShapeKeys(d)}

\* d carries the recognized shape k and no other recognized key.
OnlyShape(d, k) == ShapeKeys(d) = {k} /\ \A j \in Keys : Has(d, j) => j \in {k, "columns"}

(***************************************************************************)
(* C12.  A mapping payload that carries several recognized keys at once    *)
(* yields the datasets of every one of those keys, not only those of the   *)
(* first key that matches.                                                 *)
(***************************************************************************)
C12_EveryMatchingKey ==
    Adapted /\ passed.kind = "dict" /\ Cardinality(ShapeKeys(passed.keys)) >= 2 =>
        ExpectedDatasets(passed.keys) \subseteq DOMAIN dataframes

(***************************************************************************)
(* C13.  For every payload, mapping, sequence or scalar, the adapter's     *)
(* output includes a dataset named raw_data that holds the payload.        *)
(***************************************************************************)
C13_RawDataAlways ==
    Adapted => /\ "raw_data" \in DOMAIN dataframes
               /\ dataframes["raw_data"] = data

(***************************************************************************)
(* C14.  A mapping payload that carries one recognized shape yields the    *)
(* dataset of that shape with the right rows: logs -> logs_df, one row per *)
(* record; trends -> trends_df, one row per record; breakdown ->           *)
(* breakdown_df, one {category, count} row per category;                   *)
(* statistics.level_counts -> level_df, one {level, count} row per level;  *)
(* statistics.time_stats -> time_df, exactly one row.                      *)
(***************************************************************************)
ItemRows(items, c1, c2) ==
    [i \in 1..Len(items) |-> (c1 :> items[i][1]) @@ (c2 :> items[i][2])]

C14_SingleKeyShapes ==
    Adapted /\ passed.kind = "dict" =>
        LET d == passed.keys
            dfs == dataframes
        IN /\ OnlyShape(d, "logs") =>
                /\ "logs_df" \in DOMAIN dfs
                /\ dfs["logs_df"].rows = Get(d, "logs")
           /\ OnlyShape(d, "trends") =>
                /\ "trends_df" \in DOMAIN dfs
                /\ dfs["trends_df"].rows = Get(d, "trends")
           /\ OnlyShape(d, "breakdown") =>
                /\ "breakdown_df" \in DOMAIN dfs
                /\ Len(dfs["breakdown_df"].rows) = Len(Get(d, "breakdown"))
                /\ dfs["breakdown_df"].rows = ItemRows(Get(d, "breakdown"), "category", "count")
           /\ OnlyShape(d, "statistics") /\ Get(d, "statistics").level_counts # Absent =>
                /\ "level_df" \in DOMAIN dfs
                /\ Len(dfs["level_df"].rows) = Len(Get(d, "statistics").level_counts[1])
                /\ dfs["level_df"].rows =
                     ItemRows(Get(d, "statistics").level_counts[1], "level", "count")
           /\ OnlyShape(d, "statistics") /\ Get(d, "statistics").time_stats # Absent =>
                /\ "time_df" \in DOMAIN dfs
                /\ Len(dfs["time_df"].rows) = 1

\* The code string read time_df of a statistics payload with two levels and
\* time_stats.
C14_Witness ==
    /\ vpc = "Executed" /\ referred = "time_df"
    /\ passed.kind = "dict" /\ OnlyShape(passed.keys, "statistics")
    /\ {"level_df", "time_df"} \subseteq DOMAIN dataframes
    /\ Len(dataframes["level_df"].rows) = 2
    /\ Len(dataframes["time_df"].rows) = 1

(***************************************************************************)
(* C15.  For a payload with clusters, cluster_summary_df has exactly one   *)
(* row {cluster_id, size} per cluster, in payload order, and clusters_df   *)
(* has exactly one row per log of every cluster, each row carrying the     *)
(* cluster_id of the cluster it came from.                                 *)
(***************************************************************************)
RECURSIVE LogIds(_)
\* The cluster ids of the logs of the clusters, log by log.
LogIds(cs) ==
    IF cs = <<>> THEN <<>>
    ELSE [i \in 1..Len(Head(cs).logs) |-> Head(cs).id] \o LogIds(Tail(cs))

C15_ClusterTables ==
    Adapted /\ passed.kind = "dict" /\ Has(passed.keys, "clusters") =>
        LET cs == Get(passed.keys, "clusters")
            dfs == dataframes
        IN /\ "cluster_summary_df" \in DOMAIN dfs
           /\ Len(dfs["cluster_summary_df"].rows) = Len(cs)
           /\ \A i \in 1..Len(cs) :
                /\ dfs["cluster_summary_df"].rows[i].cluster_id = cs[i].id
                /\ cs[i].size # Absent =>
                     dfs["cluster_summary_df"].rows[i].size = cs[i].size[1]
           /\ "clusters_df" \in DOMAIN dfs
           /\ Len(dfs["clusters_df"].rows) = Len(LogIds(cs))
           /\ \A j \in 1..Len(LogIds(cs)) :
                dfs["clusters_df"].rows[j].cluster_id = LogIds(cs)[j]

(***************************************************************************)
(* C16.  For a payload with rows and columns, query_df has one row per     *)
(* element of rows, and in row i the field named columns[j] has the value  *)
(* rows[i][j], for every i and j.                                          *)
(***************************************************************************)
C16_QueryTable ==
    Adapted /\ passed.kind = "dict"
            /\ Has(passed.keys, "rows") /\ Has(passed.keys, "columns") =>
        LET rows == Get(passed.keys, "rows")
            columns == Get(passed.keys, "columns")
        IN /\ "query_df" \in DOMAIN dataframes
           /\ Len(dataframes["query_df"].rows) = Len(rows)
           /\ \A i \in 1..Len(rows), j \in 1..Len(columns) :
                dataframes["query_df"].rows[i][columns[j]] = rows[i][j]

(***************************************************************************)
(* C17.  A recognized key whose sequence is empty (logs, clusters, trends, *)
(* rows) still yields its datasets, as zero-row tables; a code string that *)
(* reads such a dataset by name does not fail for lack of the binding.     *)
(***************************************************************************)
EmptyKeys(d) ==
    {k \in ShapeKeys(d) \cap {"logs", "clusters", "trends", "rows"} : Get(d, k) = <<>>}

C17_EmptyYieldsTable ==
    Adapted /\ passed.kind = "dict" =>
        \A k \in EmptyKeys(passed.keys) :
            \A n \in DatasetsOfKey(passed.keys, k) :
                /\ n \in DOMAIN dataframes
                /\ dataframes[n].rows = <<>>
                /\ ~(vpc = "NameError" /\ referred = n)

(***************************************************************************)
(* C18.  A payload that cannot be normalized into any table is not fatal:  *)
(* the adapter absorbs the condition, the payload stays available as       *)
(* raw_data, and the code string is still executed.                        *)
(***************************************************************************)
CannotNormalize(p) ==
    \/ p.kind = "scalar"
    \/ p.kind = "dict" /\ ShapeKeys(p.keys) = {}

C18_UnconvertibleNotFatal ==
    Adapted /\ CannotNormalize(passed) =>
        /\ vpc # "Rejected"
        /\ "raw_data" \in DOMAIN dataframes

(***************************************************************************)
(* C19 as claimed.  When the caller supplies no destination path, a run    *)
(* writes no file and the result's saved_path stays absent, whether or not *)
(* the code produced a figure.                                             *)
(***************************************************************************)
NoPathSupplied(t) == engine[t] = "viz" /\ save_path[t] = DefaultPath

C19_NoPathNoFile ==
    \A t \in Threads :
        NoPathSupplied(t) /\ Returned(t) =>
            wrote[t] = None /\ res[t].saved_path = None

(***************************************************************************)
(* C19 as amended.  When the caller supplies no destination path, a path   *)
(* is generated, and a run that succeeds with a figure open at its end     *)
(* (the default figure, unless the code closed every figure) writes that   *)
(* figure to the generated path and returns the path as saved_path.  Only  *)
(* a run that ends with no figure open writes no file and leaves           *)
(* saved_path absent.  visualize_data writes nothing before the code ends. *)
(***************************************************************************)
C19_DefaultPathWritten ==
    \A t \in Threads :
        NoPathSupplied(t) =>
            /\ pc[t] = "Running" => wrote[t] = None /\ res[t].saved_path = None
            /\ pc[t] = "Succeeded" /\ res[t].image # PyNone =>
                 wrote[t] = DefaultPath /\ res[t].saved_path = DefaultPath
            /\ pc[t] = "Succeeded" /\ res[t].image = PyNone =>
                 wrote[t] = None /\ res[t].saved_path = None

\* visualize_data succeeded without a path on code that drew nothing.
C19_Witness ==
    \E t \in Threads :
        /\ NoPathSupplied(t) /\ pc[t] = "Succeeded" /\ own_figs[t] = <<>>
        /\ wrote[t] = DefaultPath /\ res[t].saved_path = DefaultPath

(***************************************************************************)
(* C20.  plot_correlation raises ValueError whenever fewer than two of the *)
(* requested columns are numeric, in particular when fewer than two        *)
(* columns are requested, and the run whose code made the call ends        *)
(* Failed.                                                                 *)
(***************************************************************************)
C20_CorrelationInputError ==
    \A t \in Threads :
        corr[t] # NoCall /\ Len(NumericOf(corr[t].cols)) < 2 =>
            /\ raised[t] # NoExc
            /\ raised[t].kind = "ValueError"
            /\ pc[t] = "Failed"
            /\ ~res[t].success

\* The code asked for the correlation of a numeric and a text column.
C20_Witness ==
    \E t \in Threads :
        /\ corr[t] = [cols |-> <<"count", "level">>]
        /\ pc[t] = "Failed" /\ ~res[t].success

(***************************************************************************)
(* C21.  A failure of the connection during execute_query(sql) is raised   *)
(* inside the code string by the helper, and when the code does not handle *)
(* it the run is Failed with the connection's message in error.            *)
(***************************************************************************)
C21_QueryFailureSurfaces ==
    \A t \in Threads :
        (query[t] # NoCall /\ query[t].failed) =>
            /\ query[t].raised
            /\ ~query[t].handled =>
                  /\ pc[t] = "Failed"
                  /\ ~res[t].success
                  /\ Contains(ErrorOf(t), query[t].msg)

\* An open connection rejected the statement of a bare execute_query call.
C21_Witness ==
    \E t \in Threads :
        /\ duckdb_conn = "open"
        /\ query[t] # NoCall
        /\ query[t].failed /\ ~query[t].handled
        /\ pc[t] = "Failed"
        /\ nops[t] > 0

(***************************************************************************)
(* C22.  With the store connection unavailable, execute_code reports       *)
(* success = false before any statement of the code string has run.        *)
(***************************************************************************)
C22_UnavailableStoreFailsFirst ==
    \A t \in Threads :
        (engine[t] = "exec" /\ duckdb_conn = "closed") =>
            /\ nops[t] = 0
            /\ pc[t] # "Succeeded"

C25_PayloadUnchanged ==
    Adapted =>
        /\ data = passed
        /\ "raw_data" \in DOMAIN dataframes => dataframes["raw_data"] = passed

(***************************************************************************)
(* C26.  Once every call that was started has returned, sys.stdout is the  *)
(* process's own stream again, also when calls overlapped.                 *)
(***************************************************************************)
C26_StdoutRestored ==
    (runs > 0 /\ \A t \in Threads : pc[t] = "Idle") => sys_stdout = 0

C28_CacheWithinCapacity ==
    /\ Len(embedding_cache) <= cache_capacity
    /\ last_get # NoCall =>
          /\ (~last_get.hit /\ last_get.returned \in {None, "[]"}) =>
                ~Cached(embedding_cache, last_get.text)
          /\ last_get.hit => ~last_get.requested

(***************************************************************************)
(* C29.  initialize calls parse, extract, store templates, store           *)
(* attributes in this order; the first step that fails ends the call with  *)
(* False, no later step is called and log_file and is_initialized stay as  *)
(* they were; is_initialized becomes true only when all four succeeded.    *)
(***************************************************************************)
C29_InitializeStepsInOrder ==
    last_init # NoCall =>
        LET c == last_init.called
            r == last_init.results
        IN /\ c = SubSeq(InitSteps, 1, Len(c))
           /\ \A i \in 1..(Len(c) - 1) : r[i]
           /\ (\E i \in 1..Len(InitSteps) : ~r[i]) =>
                 /\ ~last_init.returned
                 /\ ~r[Len(c)]
                 /\ is_initialized = last_init.was.is_initialized
                 /\ log_file = last_init.was.log_file
           /\ (is_initialized /\ ~last_init.was.is_initialized) =>
                 /\ Len(c) = Len(InitSteps)
                 /\ \A i \in 1..Len(InitSteps) : r[i]
                 /\ last_init.returned

\* An initialized agent was initialized again with another file and the
\* third step failed.
C29_Witness ==
    /\ last_init # NoCall
    /\ last_init.was.is_initialized
    /\ last_init.file # log_file
    /\ Len(last_init.called) = 3
    /\ ~last_init.returned

(***************************************************************************)
(* C30.  chat_history alternates user and assistant entries, each user     *)
(* entry followed at once by the answer to it; a call on an agent that is  *)
(* not initialized appends nothing.                                        *)
(***************************************************************************)
C30_HistoryAlternates ==
    /\ Len(chat_history) % 2 = 0
    /\ \A i \in 1..Len(chat_history) :
          IF i % 2 = 1
          THEN /\ chat_history[i].role = "user"
               /\ i < Len(chat_history)
               /\ chat_history[i + 1] = Entry("assistant", AnswerTo(chat_history[i].content))
          ELSE chat_history[i].role = "assistant"
    /\ (last_query # NoCall /\ ~last_query.was_initialized) =>
          chat_history = last_query.before

====
